---------------------------- MODULE Spec2Model ----------------------------
(***************************************************************************)
(* Model of src/src/loader.js: the promise based Loader built on           *)
(* XMLHttpRequest.  A Loader issues GET requests (load, loadOne, loadAll,  *)
(* fileLoadingRequest); the host transport later fires the load, error and *)
(* progress events of each request, and each event runs the listener that  *)
(* fileLoadingRequest registered for it.  JavaScript runs every call and   *)
(* every listener to completion, together with the promise reactions it    *)
(* queues, so each of them is one action.                                  *)
(***************************************************************************)
EXTENDS Integers, Sequences, FiniteSets, TLC

VARIABLES
    loaders,        \* Loader instance -> its fields responseType, progressCb
    requests,       \* the XMLHttpRequest objects created so far, in order
    promise,        \* promise[r]: the promise fileLoadingRequest made for request r
    calls,          \* the load calls that returned a promise, in order
    thrown,         \* errors load calls threw to their caller
    notifications,  \* the invocations of progress callbacks, in order
    uncaught,       \* errors thrown by a listener and left to the host
    fired           \* history: the progress events the transport fired, in order

vars == <<loaders, requests, promise, calls, thrown, notifications, uncaught, fired>>

---------------------------------------------------------------------------
(* Bounds of the model.                                                    *)

MaxRequests == 2    \* requests created in one behaviour
MaxCalls == 1       \* load calls that return a promise
MaxBatch == 2       \* URLs in one array passed to load
MaxProgress == 1    \* progress events fired in one behaviour

---------------------------------------------------------------------------
(* JavaScript values.  Every value is a record with a type field, so that  *)
(* values of different types compare unequal.                              *)

Undefined == [type |-> "undefined"]
Num(n) == [type |-> "number", num |-> n]
Str(chars) == [type |-> "string", chars |-> chars]
Err(name, message) == [type |-> "error", name |-> name, message |-> message]
Arr(items) == [type |-> "array", items |-> items]
Fun(name) == [type |-> "function", fn |-> name]
Buf(bytes) == [type |-> "arraybuffer", bytes |-> bytes]

TypeOf(v) == v.type

\* Strings the code inspects are sequences of characters.
Chars_a_json == <<"a", ".", "j", "s", "o", "n">>
Chars_b_bin == <<"b", ".", "b", "i", "n">>
Chars_c_json_bak == <<"c", ".", "j", "s", "o", "n", ".", "b", "a", "k">>

URLs == {Chars_a_json, Chars_b_bin, Chars_c_json_bak}

\* The responseType values a Loader can be constructed with (line 7), as
\* plain strings; NoHint is the default undefined.
NoHint == "undefined"
ResponseTypes == {"", "arraybuffer", "json"}
Hints == {NoHint} \cup ResponseTypes

Loaders == {"loaderA"}
Callbacks == {Fun("f"), Fun("g")}

---------------------------------------------------------------------------
(* The transport's side of a request: status lines and response bodies.    *)

Statuses == {0, 200, 304, 404, 500}
StatusTexts == {"OK", "Not Found"}

Text_12 == <<"1", "2">>        \* well-formed JSON text
Text_bad == <<"{">>            \* malformed JSON text
Responses == {Str(Text_12), Str(Text_bad), Buf(<<1, 2>>)}

ProgressCounts == {<<1, 2>>}     \* <<loaded, total>>

---------------------------------------------------------------------------
(* Pure helpers of the code.                                               *)

\* String.prototype.indexOf(searchString, position) on character
\* sequences, positions counted from 0; -1 when there is no match.
RECURSIVE IndexOfFrom(_, _, _)
IndexOfFrom(s, t, k) ==
    IF k + Len(t) > Len(s) THEN -1
    ELSE IF SubSeq(s, k + 1, k + Len(t)) = t THEN k
    ELSE IndexOfFrom(s, t, k + 1)

Suffix == <<".", "j", "s", "o", "n">>

\* Line 81 passes this.length - suffix.length as the position.  this is the
\* Loader (the executor and the enclosing method are arrow/method scoped),
\* a Loader has no length, undefined - 5 is NaN, and indexOf reads a NaN
\* position as 0.
SearchPosition(url) == 0

\* Lines 80-85: the responseType chosen when the Loader has none.
InferResponseType(url) ==
    IF IndexOfFrom(url, Suffix, SearchPosition(url)) # -1
    THEN "json"
    ELSE "arraybuffer"

\* Line 77: if (this.responseType), false for undefined and for "".
Truthy(hint) == hint # NoHint /\ hint # ""

\* Mutant of RequestResponseType: a ".json" URL is json whatever the hint.
RequestResponseTypeSuffixFirst(hint, url) ==
    IF InferResponseType(url) = "json" THEN "json"
    ELSE IF Truthy(hint) THEN hint
    ELSE "arraybuffer"

\* Lines 77-86: the responseType set on the request.
RequestResponseType(hint, url) ==
    IF Truthy(hint) THEN hint ELSE InferResponseType(url)

\* JSON.parse (line 94) on the texts of the model: a JSON number literal
\* without sign, fraction or exponent parses to that number; any other
\* text of the model is no JSON text and raises SyntaxError.
Digits == {"0", "1", "2", "3", "4", "5", "6", "7", "8", "9"}

DigitValue(c) ==
    CASE c = "0" -> 0 [] c = "1" -> 1 [] c = "2" -> 2 [] c = "3" -> 3
      [] c = "4" -> 4 [] c = "5" -> 5 [] c = "6" -> 6 [] c = "7" -> 7
      [] c = "8" -> 8 [] c = "9" -> 9

IsNumberLiteral(text) ==
    /\ Len(text) >= 1
    /\ \A i \in 1..Len(text) : text[i] \in Digits
    /\ (Len(text) > 1 => text[1] # "0")

RECURSIVE NumberValue(_)
NumberValue(text) ==
    IF text = <<>> THEN 0
    ELSE 10 * NumberValue(SubSeq(text, 1, Len(text) - 1)) + DigitValue(text[Len(text)])

JSONParse(text) ==
    IF IsNumberLiteral(text)
    THEN [ok |-> TRUE, value |-> Num(NumberValue(text))]
    ELSE [ok |-> FALSE, error |-> Err("SyntaxError", "Unexpected token")]

\* Mutant of IsSuccessStatus: the status 0 of local transports forgotten.
IsSuccessStatusNoZero(status) == status = 200 \/ status = 304

\* Line 91: the statuses the load listener takes as success.
IsSuccessStatus(status) == status = 200 \/ status = 304 \/ status = 0

\* Mutant of OnLoad: the response is resolved as delivered, never parsed.
OnLoadNoParse(responseType, status, statusText, response) ==
    IF IsSuccessStatus(status)
    THEN [op |-> "resolve", value |-> response]
    ELSE [op |-> "reject", value |-> Err("Error", statusText)]

\* Lines 88-100: the load listener, given the request's responseType and
\* the status, statusText and response the transport set on the request.
\* It ends by resolving, by rejecting, or by throwing out of the listener
\* (JSON.parse is not guarded, and a listener is not the promise executor).
OnLoad(responseType, status, statusText, response) ==
    IF IsSuccessStatus(status)
    THEN IF responseType = "json" /\ TypeOf(response) = "string"
         THEN LET parsed == JSONParse(response.chars)
              IN  IF parsed.ok
                  THEN [op |-> "resolve", value |-> parsed.value]
                  ELSE [op |-> "throw", value |-> parsed.error]
         ELSE [op |-> "resolve", value |-> response]
    ELSE [op |-> "reject", value |-> Err("Error", statusText)]

\* Mutant of OnError: the error built from the (empty) statusText of the
\* failed request, as the load listener builds its error.
OnErrorStatusText == [op |-> "reject", value |-> Err("Error", "")]

\* Lines 117-119: the error listener.
OnError == [op |-> "reject", value |-> Err("Error", "Network Error")]

\* Mutant of ProgressEvent: if (index) in place of if (index !== undefined),
\* which takes the index 0 for no index.
ProgressEventTruthyIndex(index, loaded, total) ==
    IF index # Undefined /\ index # Num(0)
    THEN [value |-> <<loaded, total>>, loaded |-> loaded, total |-> total,
          index |-> index]
    ELSE [value |-> <<loaded, total>>, loaded |-> loaded, total |-> total]

\* Mutant of ProgressEvent: loaded and total exchanged.
ProgressEventSwapped(index, loaded, total) ==
    LET event == [value |-> <<total, loaded>>, loaded |-> total, total |-> loaded]
    IN  IF index # Undefined
        THEN [value |-> event.value, loaded |-> total, total |-> loaded,
              index |-> index]
        ELSE event

\* Lines 104-111: the event object handed to the progress callback.  The
\* quotient loaded / total is kept as the pair of its operands.
ProgressEvent(index, loaded, total) ==
    LET event == [value |-> <<loaded, total>>, loaded |-> loaded, total |-> total]
    IN  IF index # Undefined
        THEN [value |-> event.value, loaded |-> loaded, total |-> total,
              index |-> index]
        ELSE event

---------------------------------------------------------------------------
(* Promises.                                                               *)

Pending == [state |-> "pending", value |-> Undefined]
Resolved(v) == [state |-> "resolved", value |-> v]
Rejected(e) == [state |-> "rejected", value |-> e]

\* Mutant of AllNew: the aggregate waits for a member even when there is none.
AllNewPending(n) ==
    [state |-> "pending", value |-> Undefined,
     values |-> [i \in 1..n |-> Undefined], remaining |-> n]

\* Line 61, Promise.all(promises): the aggregate promise with its list of
\* values and its count of members still to fulfil.  With no member it is
\* resolved with the empty array at once.
AllNew(n) ==
    IF n = 0
    THEN [state |-> "resolved", value |-> Arr(<<>>), values |-> <<>>, remaining |-> 0]
    ELSE [state |-> "pending", value |-> Undefined,
          values |-> [i \in 1..n |-> Undefined], remaining |-> n]

\* Mutant of AllOnFulfilled: values collected in order of arrival.
AllOnFulfilledArrival(all, i, v) ==
    LET arrival == Len(all.values) - all.remaining + 1
        values == [all.values EXCEPT ![arrival] = v]
        remaining == all.remaining - 1
    IN  IF remaining = 0 /\ all.state = "pending"
        THEN [state |-> "resolved", value |-> Arr(values),
              values |-> values, remaining |-> remaining]
        ELSE [all EXCEPT !.values = values, !.remaining = remaining]

\* Mutant of AllOnFulfilled: the aggregate resolves on the first member.
AllOnFulfilledEager(all, i, v) ==
    LET values == [all.values EXCEPT ![i] = v]
        remaining == all.remaining - 1
    IN  IF all.state = "pending"
        THEN [state |-> "resolved", value |-> Arr(values),
              values |-> values, remaining |-> remaining]
        ELSE [all EXCEPT !.values = values, !.remaining = remaining]

\* Mutant of AllOnFulfilled: a member fulfilling after the aggregate was
\* rejected resolves it.
AllOnFulfilledUnguarded(all, i, v) ==
    LET values == [all.values EXCEPT ![i] = v]
        remaining == all.remaining - 1
    IN  IF remaining = 0 \/ all.state = "rejected"
        THEN [state |-> "resolved", value |-> Arr(values),
              values |-> values, remaining |-> remaining]
        ELSE [all EXCEPT !.values = values, !.remaining = remaining]

\* Promise.all's reaction to member i (counted from 1) fulfilling with v:
\* v is stored at i, and the aggregate resolves when no member remains.
AllOnFulfilled(all, i, v) ==
    LET values == [all.values EXCEPT ![i] = v]
        remaining == all.remaining - 1
    IN  IF remaining = 0 /\ all.state = "pending"
        THEN [state |-> "resolved", value |-> Arr(values),
              values |-> values, remaining |-> remaining]
        ELSE [all EXCEPT !.values = values, !.remaining = remaining]

\* Mutant of AllOnRejected: each rejection replaces the aggregate's error.
AllOnRejectedLast(all, e) == [all EXCEPT !.state = "rejected", !.value = e]

\* Promise.all's reaction to a member rejecting with e: the aggregate is
\* rejected with e unless it is settled already.
AllOnRejected(all, e) ==
    IF all.state = "pending"
    THEN [all EXCEPT !.state = "rejected", !.value = e]
    ELSE all

---------------------------------------------------------------------------
(* The load call.                                                          *)

RECURSIVE SeqsUpTo(_, _)
SeqsUpTo(S, n) ==
    IF n = 0 THEN {<<>>}
    ELSE LET shorter == SeqsUpTo(S, n - 1)
         IN  shorter \cup {Append(q, x) : q \in {t \in shorter : Len(t) = n - 1}, x \in S}

\* What load is called with: nothing, one URL, or an array of URLs.
Targets ==
    {Undefined} \cup {Str(u) : u \in URLs}
        \cup {Arr(us) : us \in SeqsUpTo({Str(u) : u \in URLs}, MaxBatch)}

\* ToString of a URL argument, as request.open reads it (line 74).
UrlChars(url) ==
    CASE url.type = "string" -> url.chars
      [] OTHER -> <<"u", "n", "d", "e", "f", "i", "n", "e", "d">>

\* Mutant of LoadDispatch: the test for undefined left out.
LoadDispatchNoCheck(fileURLs) ==
    IF fileURLs.type = "array" THEN "loadAll" ELSE "loadOne"

\* Lines 31-37: what load does with its argument.
LoadDispatch(fileURLs) ==
    IF fileURLs = Undefined THEN "throw"
    ELSE IF fileURLs.type = "array" THEN "loadAll"
    ELSE "loadOne"

InvalidParameter ==
    Err("Error", "Invalid fileURLs parameter: load method needs at least a url to load")

\* Lines 72-122: the request fileLoadingRequest creates.  Without a truthy
\* responseType on the Loader, line 81 calls url.indexOf: on a url that is
\* no string this throws inside the promise executor, after open and
\* before the listeners are added and the request is sent.
ExecutorThrows(hint, url) == ~Truthy(hint) /\ url.type # "string"

\* Mutant of FileLoadingRequest: only the first member of a batch is sent
\* by the call; the others wait.
FileLoadingRequestFirstOnly(l, url, index) ==
    [loader |-> l,
     url |-> UrlChars(url),
     index |-> index,
     responseType |-> IF ExecutorThrows(loaders[l].responseType, url)
                      THEN ""
                      ELSE RequestResponseType(loaders[l].responseType, UrlChars(url)),
     sent |-> ~ExecutorThrows(loaders[l].responseType, url)
                 /\ index \in {Undefined, Num(0)},
     done |-> FALSE]

FileLoadingRequest(l, url, index) ==
    [loader |-> l,
     url |-> UrlChars(url),
     index |-> index,
     responseType |-> IF ExecutorThrows(loaders[l].responseType, url)
                      THEN ""
                      ELSE RequestResponseType(loaders[l].responseType, UrlChars(url)),
     sent |-> ~ExecutorThrows(loaders[l].responseType, url),
     done |-> FALSE]

\* The promise fileLoadingRequest returns (line 124): pending, or rejected
\* by the executor's exception.
FileLoadingPromise(l, url) ==
    IF ExecutorThrows(loaders[l].responseType, url)
    THEN Rejected(Err("TypeError", "url.indexOf is not a function"))
    ELSE Pending

\* Line 57-59: the index loadAll passes for the member at position i
\* (positions counted from 1 here, indexes from 0 in the code).
MemberIndex(i) == Num(i - 1)

NoAll == [state |-> "none", value |-> Undefined, values |-> <<>>, remaining |-> 0]

\* load(undefined): line 32 throws before anything else happens.
LoadThrow(l, fileURLs) ==
    /\ LoadDispatch(fileURLs) = "throw"
    /\ thrown' = thrown \cup {InvalidParameter}
    /\ UNCHANGED <<loaders, requests, promise, calls, notifications, uncaught, fired>>

\* load(url): loadOne returns the promise of the one request.
LoadOne(l, fileURLs) ==
    /\ LoadDispatch(fileURLs) = "loadOne"
    /\ requests' = Append(requests, FileLoadingRequest(l, fileURLs, Undefined))
    /\ promise' = Append(promise, FileLoadingPromise(l, fileURLs))
    /\ calls' = Append(calls, [loader |-> l, kind |-> "one",
                               members |-> <<Len(requests) + 1>>, all |-> NoAll])
    /\ UNCHANGED <<loaders, thrown, notifications, uncaught, fired>>

\* load(urls): loadAll creates one request per URL, in order, and returns
\* Promise.all of their promises.
LoadAll(l, fileURLs) ==
    /\ LoadDispatch(fileURLs) = "loadAll"
    /\ LET n == Len(fileURLs.items)
       IN  /\ requests' = requests \o
                  [i \in 1..n |-> FileLoadingRequest(l, fileURLs.items[i], MemberIndex(i))]
           /\ promise' = promise \o
                  [i \in 1..n |-> FileLoadingPromise(l, fileURLs.items[i])]
           /\ calls' = Append(calls, [loader |-> l, kind |-> "all",
                                      members |-> [i \in 1..n |-> Len(requests) + i],
                                      all |-> AllNew(n)])
    /\ UNCHANGED <<loaders, thrown, notifications, uncaught, fired>>

Load(l, fileURLs) ==
    \/ LoadThrow(l, fileURLs)
    \/ LoadOne(l, fileURLs)
    \/ LoadAll(l, fileURLs)

---------------------------------------------------------------------------
(* Transport events and their listeners.                                   *)

\* The call whose array holds request r, and r's position in it (0: none).
CallOf(r) ==
    IF \E c \in 1..Len(calls) : \E i \in 1..Len(calls[c].members) : calls[c].members[i] = r
    THEN CHOOSE c \in 1..Len(calls) :
             \E i \in 1..Len(calls[c].members) : calls[c].members[i] = r
    ELSE 0

PositionOf(r) ==
    CHOOSE i \in 1..Len(calls[CallOf(r)].members) : calls[CallOf(r)].members[i] = r

\* Mutant of Settle: resolve and reject act on a settled promise too.
SettleOverwrite(r, result) ==
    IF result.op = "throw"
    THEN /\ uncaught' = uncaught \cup {result.value}
         /\ UNCHANGED <<promise, calls>>
    ELSE /\ UNCHANGED uncaught
         /\ promise' = [promise EXCEPT ![r] =
                IF result.op = "resolve" THEN Resolved(result.value)
                ELSE Rejected(result.value)]
         /\ UNCHANGED calls

\* A listener's resolve, reject or throw, with the reactions it triggers.
\* resolve and reject do nothing on a settled promise (lines 96, 98, 118);
\* an exception leaving a listener goes to the host and settles nothing.
\* When r is a member of a Promise.all, that promise reacts (line 61).
Settle(r, result) ==
    IF result.op = "throw"
    THEN /\ uncaught' = uncaught \cup {result.value}
         /\ UNCHANGED <<promise, calls>>
    ELSE /\ UNCHANGED uncaught
         /\ IF promise[r].state # "pending"
            THEN UNCHANGED <<promise, calls>>
            ELSE /\ promise' = [promise EXCEPT ![r] =
                        IF result.op = "resolve" THEN Resolved(result.value)
                        ELSE Rejected(result.value)]
                 /\ IF CallOf(r) # 0 /\ calls[CallOf(r)].kind = "all"
                    THEN calls' = [calls EXCEPT ![CallOf(r)].all =
                             IF result.op = "resolve"
                             THEN AllOnFulfilled(@, PositionOf(r), result.value)
                             ELSE AllOnRejected(@, result.value)]
                    ELSE UNCHANGED calls

\* The transport has events left for request r: the request was sent and
\* its exchange has not ended.  An XMLHttpRequest ends with exactly one of
\* load and error (the code never aborts a request and sets no timeout),
\* and fires progress only before that.
InFlight(r) == requests[r].sent /\ ~requests[r].done

\* The transport fires load on request r (lines 88-100).
TransportLoad(r, status, statusText, response) ==
    /\ InFlight(r)
    /\ requests' = [requests EXCEPT ![r].done = TRUE]
    /\ Settle(r, OnLoad(requests[r].responseType, status, statusText, response))
    /\ UNCHANGED <<loaders, thrown, notifications, fired>>

\* The transport fires error on request r (lines 117-119).
TransportError(r) ==
    /\ InFlight(r)
    /\ requests' = [requests EXCEPT ![r].done = TRUE]
    /\ Settle(r, OnError)
    /\ UNCHANGED <<loaders, thrown, notifications, fired>>

\* Mutant of ProgressCallbackOf: one slot for every Loader.
ProgressCallbackOfShared(l) ==
    IF \E k \in DOMAIN loaders : loaders[k].progressCb # Undefined
    THEN loaders[CHOOSE k \in DOMAIN loaders : loaders[k].progressCb # Undefined].progressCb
    ELSE Undefined

\* Lines 141-143: the progressCallback getter.
ProgressCallbackOf(l) == loaders[l].progressCb

\* The transport fires progress on request r (lines 102-115).
TransportProgress(r, loaded, total) ==
    /\ InFlight(r)
    /\ fired' = Append(fired, [req |-> r, loaded |-> loaded, total |-> total])
    /\ IF ProgressCallbackOf(requests[r].loader) # Undefined
       THEN notifications' = Append(notifications,
                   [callback |-> ProgressCallbackOf(requests[r].loader),
                    req |-> r,
                    event |-> ProgressEvent(requests[r].index, loaded, total)])
       ELSE UNCHANGED notifications
    /\ UNCHANGED <<loaders, requests, promise, calls, thrown, uncaught>>

---------------------------------------------------------------------------
(* Registration of the progress callback.                                  *)

\* Mutant of OnProgress: the new callback is also handed the progress events
\* its Loader's requests have fired so far.
OnProgressReplay(l, callback) ==
    LET Replay[i \in 0..Len(fired)] ==
            IF i = 0 THEN <<>>
            ELSE IF requests[fired[i].req].loader = l /\ callback # Undefined
                 THEN Append(Replay[i - 1],
                             [callback |-> callback,
                              req |-> fired[i].req,
                              event |-> [value |-> <<fired[i].loaded, fired[i].total>>,
                                         loaded |-> fired[i].loaded,
                                         total |-> fired[i].total]])
                 ELSE Replay[i - 1]
    IN  /\ loaders' = [loaders EXCEPT ![l].progressCb = callback]
        /\ notifications' = notifications \o Replay[Len(fired)]
        /\ UNCHANGED <<requests, promise, calls, thrown, uncaught, fired>>

\* Lines 131-133: onProgress(callback).
OnProgress(l, callback) ==
    /\ loaders' = [loaders EXCEPT ![l].progressCb = callback]
    /\ UNCHANGED <<requests, promise, calls, thrown, notifications, uncaught, fired>>

\* Mutant of SetProgressCallback: a callback already registered is kept.
SetProgressCallbackKeepFirst(l, callback) ==
    /\ loaders' = [loaders EXCEPT ![l].progressCb =
                       IF @ = Undefined THEN callback ELSE @]
    /\ UNCHANGED <<requests, promise, calls, thrown, notifications, uncaught, fired>>

\* Lines 151-153: loader.progressCallback = callback.
SetProgressCallback(l, callback) ==
    /\ loaders' = [loaders EXCEPT ![l].progressCb = callback]
    /\ UNCHANGED <<requests, promise, calls, thrown, notifications, uncaught, fired>>

---------------------------------------------------------------------------
(* The specification.                                                      *)

\* Lines 9-21: each Loader as its constructor leaves it.
Init ==
    /\ loaders \in [Loaders -> [responseType : Hints, progressCb : {Undefined}]]
    /\ requests = <<>>
    /\ promise = <<>>
    /\ calls = <<>>
    /\ thrown = {}
    /\ notifications = <<>>
    /\ uncaught = {}
    /\ fired = <<>>

\* The number of requests load creates for its argument.
RequestCount(fileURLs) ==
    IF fileURLs.type = "array" THEN Len(fileURLs.items) ELSE 1

\* The bounds leave room for the call load(fileURLs): a call that throws
\* creates nothing and is always possible.
Room(fileURLs, maxCalls, maxRequests) ==
    \/ LoadDispatch(fileURLs) = "throw"
    \/ /\ Len(calls) < maxCalls
       /\ Len(requests) + RequestCount(fileURLs) <= maxRequests

Next ==
    \/ \E l \in DOMAIN loaders, t \in Targets :
           Room(t, MaxCalls, MaxRequests) /\ Load(l, t)
    \/ \E r \in 1..Len(requests), st \in Statuses, tx \in StatusTexts, rs \in Responses :
           TransportLoad(r, st, tx, rs)
    \/ \E r \in 1..Len(requests) : TransportError(r)
    \/ \E r \in 1..Len(requests), c \in ProgressCounts :
           Len(fired) < MaxProgress /\ TransportProgress(r, c[1], c[2])
    \/ \E l \in DOMAIN loaders, cb \in Callbacks \cup {Undefined} : OnProgress(l, cb)
    \/ \E l \in DOMAIN loaders, cb \in Callbacks \cup {Undefined} : SetProgressCallback(l, cb)

Spec == Init /\ [][Next]_vars

---------------------------------------------------------------------------
(* A transport that fires load or error again on a request whose exchange  *)
(* has ended.  An XMLHttpRequest does not, but the code removes none of    *)
(* its listeners (lines 88, 117), so each would run again.                 *)

LateLoad(r, status, statusText, response) ==
    /\ requests[r].sent
    /\ requests[r].done
    /\ Settle(r, OnLoad(requests[r].responseType, status, statusText, response))
    /\ UNCHANGED <<loaders, requests, thrown, notifications, fired>>

LateError(r) ==
    /\ requests[r].sent
    /\ requests[r].done
    /\ Settle(r, OnError)
    /\ UNCHANGED <<loaders, requests, thrown, notifications, fired>>

NextLate ==
    \/ Next
    \/ \E r \in 1..Len(requests), st \in Statuses, tx \in StatusTexts, rs \in Responses :
           LateLoad(r, st, tx, rs)
    \/ \E r \in 1..Len(requests) : LateError(r)

SpecLate == Init /\ [][NextLate]_vars

---------------------------------------------------------------------------
(* Two Loader instances constructed without a responseType, loading one    *)
(* binary URL alone or in batches, with room for several progress events.  *)

MaxCallsTwo == 2
MaxRequestsTwo == 2
MaxProgressTwo == 2

LoadersTwo == {"loaderA", "loaderB"}

\* The loaded and total counts of the progress events of one exchange.
ProgressCountsTwo == {<<1, 2>>, <<2, 2>>}

TargetsTwo ==
    {Str(Chars_b_bin)} \cup {Arr(us) : us \in SeqsUpTo({Str(Chars_b_bin)}, MaxBatch)}

InitTwo ==
    /\ loaders \in [LoadersTwo -> [responseType : {NoHint}, progressCb : {Undefined}]]
    /\ requests = <<>>
    /\ promise = <<>>
    /\ calls = <<>>
    /\ thrown = {}
    /\ notifications = <<>>
    /\ uncaught = {}
    /\ fired = <<>>

NextTwo ==
    \/ \E l \in DOMAIN loaders, t \in TargetsTwo :
           Room(t, MaxCallsTwo, MaxRequestsTwo) /\ Load(l, t)
    \/ \E r \in 1..Len(requests) : TransportLoad(r, 200, "OK", Buf(<<1, 2>>))
    \/ \E r \in 1..Len(requests) : TransportError(r)
    \/ \E r \in 1..Len(requests), c \in ProgressCountsTwo :
           Len(fired) < MaxProgressTwo /\ TransportProgress(r, c[1], c[2])
    \/ \E l \in DOMAIN loaders, cb \in Callbacks \cup {Undefined} : OnProgress(l, cb)
    \/ \E l \in DOMAIN loaders, cb \in Callbacks \cup {Undefined} : SetProgressCallback(l, cb)

SpecTwo == InitTwo /\ [][NextTwo]_vars

---------------------------------------------------------------------------
(* Vocabulary of the properties.                                           *)

Batches == {c \in 1..Len(calls) : calls[c].kind = "all"}
Singles == {c \in 1..Len(calls) : calls[c].kind = "one"}
Members(c) == calls[c].members
Size(c) == Len(calls[c].members)

\* The promise load returned for call c.
Outcome(c) ==
    IF calls[c].kind = "one"
    THEN promise[calls[c].members[1]]
    ELSE [state |-> calls[c].all.state, value |-> calls[c].all.value]

AllMembers(c, st) == \A i \in 1..Size(c) : promise[Members(c)[i]].state = st
SomeMember(c, st) == \E i \in 1..Size(c) : promise[Members(c)[i]].state = st

\* Whether the character sequence s ends with t.
EndsWith(s, t) ==
    Len(s) >= Len(t) /\ SubSeq(s, Len(s) - Len(t) + 1, Len(s)) = t

SuccessStatuses == {200, 304, 0}
NetworkError == Err("Error", "Network Error")

\* The load listener has to parse the response: the request asks for json
\* and the transport delivered text.
MustParse(r, response) ==
    requests[r].responseType = "json" /\ response.type = "string"

---------------------------------------------------------------------------
(* C1: when every member fetch of a non-empty batch has resolved, the      *)
(* batch is resolved with an array of the batch's length whose element i   *)
(* is the value member i resolved with, whatever the order in which the    *)
(* members completed.                                                      *)
C1_BatchResultInInputOrder ==
    \A c \in Batches :
        (Size(c) >= 1 /\ AllMembers(c, "resolved")) =>
            /\ Outcome(c).state = "resolved"
            /\ Outcome(c).value.type = "array"
            /\ Len(Outcome(c).value.items) = Size(c)
            /\ \A i \in 1..Size(c) :
                   Outcome(c).value.items[i] = promise[Members(c)[i]].value

\* A resolved batch of two members that resolved with different payloads.
C1_Witness ==
    \E c \in Batches :
        /\ Size(c) >= 2
        /\ Outcome(c).state = "resolved"
        /\ promise[Members(c)[1]].value # promise[Members(c)[2]].value

(* C2: a batch with a rejected member is rejected, with an error and never *)
(* with results; the pending batch takes the error of the member that      *)
(* rejects first, and keeps it when other members reject later.            *)
C2_BatchRejectsWithFirstError ==
    [][\A c \in Batches :
          /\ \A i \in 1..Size(c) :
                 ( /\ calls[c].all.state = "pending"
                   /\ promise[Members(c)[i]].state = "pending"
                   /\ promise'[Members(c)[i]].state = "rejected" )
                 => /\ calls'[c].all.state = "rejected"
                    /\ calls'[c].all.value = promise'[Members(c)[i]].value
          /\ calls[c].all.state = "rejected"
                 => /\ calls'[c].all.state = "rejected"
                    /\ calls'[c].all.value = calls[c].all.value
          /\ (\E i \in 1..Size(c) : promise'[Members(c)[i]].state = "rejected")
                 => /\ calls'[c].all.state = "rejected"
                    /\ calls'[c].all.value.type = "error"
      ]_vars

\* Both members of a batch rejected with different errors, and the batch
\* carries the error of the second member: the first member rejected later.
C2_Witness ==
    \E c \in Batches :
        /\ Size(c) >= 2
        /\ AllMembers(c, "rejected")
        /\ promise[Members(c)[1]].value # promise[Members(c)[2]].value
        /\ Outcome(c) = Rejected(promise[Members(c)[2]].value)

(* C3: a batch is resolved only if every member fetch is resolved; it is   *)
(* never resolved while a member is pending or rejected.                   *)
C3_BatchResolvedOnlyIfAllResolved ==
    \A c \in Batches : Outcome(c).state = "resolved" => AllMembers(c, "resolved")

\* A batch still pending with one member resolved and another pending.
C3_Witness ==
    \E c \in Batches :
        /\ Outcome(c).state = "pending"
        /\ SomeMember(c, "resolved")
        /\ SomeMember(c, "pending")

(* C4: load(undefined) throws to its caller and creates no request, no     *)
(* promise and no call record.                                             *)
C4_LoadUndefinedThrows ==
    [][\A l \in DOMAIN loaders :
          Load(l, Undefined) =>
              /\ InvalidParameter \in thrown'
              /\ requests' = requests
              /\ promise' = promise
              /\ calls' = calls
      ]_vars

\* load(undefined) was called before any request existed.
C4_Witness == thrown = {InvalidParameter} /\ requests = <<>>

(* C5: when load fires on a pending fetch, the fetch resolves only if the  *)
(* status is 200, 304 or 0; with such a status it resolves, with the       *)
(* response itself when nothing has to be parsed (a response text that     *)
(* has to be parsed and is malformed is the case of C6); with any other    *)
(* status it is rejected with an Error whose message is the statusText.    *)
C5_StatusDecidesOutcome ==
    [][\A r \in 1..Len(requests) : \A st \in Statuses, tx \in StatusTexts, rs \in Responses :
          (promise[r].state = "pending" /\ TransportLoad(r, st, tx, rs)) =>
              /\ promise'[r].state = "resolved" => st \in SuccessStatuses
              /\ (st \in SuccessStatuses /\ ~MustParse(r, rs))
                     => promise'[r] = Resolved(rs)
              /\ (st \in SuccessStatuses /\ MustParse(r, rs) /\ rs # Str(Text_bad))
                     => promise'[r].state = "resolved"
              /\ st \notin SuccessStatuses
                     => promise'[r] = Rejected(Err("Error", tx))
      ]_vars

\* One fetch resolved and another rejected with a status text.
C5_Witness ==
    \E r1, r2 \in 1..Len(requests) :
        /\ promise[r1].state = "resolved"
        /\ promise[r2] = Rejected(Err("Error", "Not Found"))

(* C6: when load fires with a success status on a pending fetch whose      *)
(* response text has to be parsed and is malformed, the fetch is rejected  *)
(* with the parser's SyntaxError.                                          *)
C6_MalformedJsonRejects ==
    [][\A r \in 1..Len(requests) : \A st \in SuccessStatuses, tx \in StatusTexts :
          ( /\ promise[r].state = "pending"
            /\ MustParse(r, Str(Text_bad))
            /\ TransportLoad(r, st, tx, Str(Text_bad)) )
          => /\ promise'[r].state = "rejected"
             /\ promise'[r].value.type = "error"
             /\ promise'[r].value.name = "SyntaxError"
      ]_vars

(* C7: when error fires on a pending fetch, the fetch is rejected with the *)
(* Error 'Network Error'.                                                  *)
C7_ErrorEventRejects ==
    [][\A r \in 1..Len(requests) :
          (promise[r].state = "pending" /\ TransportError(r)) =>
              promise'[r] = Rejected(NetworkError)
      ]_vars

\* A fetch rejected with the network error.
C7_Witness == \E r \in 1..Len(requests) : promise[r] = Rejected(NetworkError)

(* C8: a request of a Loader constructed without responseType asks for     *)
(* json exactly when its URL ends in ".json", and for arraybuffer          *)
(* otherwise.                                                              *)
C8_JsonExactlyForJsonSuffix ==
    \A r \in 1..Len(requests) :
        loaders[requests[r].loader].responseType = NoHint =>
            /\ requests[r].responseType = "json" <=> EndsWith(requests[r].url, Suffix)
            /\ requests[r].responseType \in {"json", "arraybuffer"}

(* C9: for a URL ending in ".json" on a Loader constructed without         *)
(* responseType, when load fires with a success status and a well-formed   *)
(* JSON text, the fetch resolves with the parsed value, not with the text. *)
C9_JsonTextIsParsed ==
    [][\A r \in 1..Len(requests) : \A st \in SuccessStatuses, tx \in StatusTexts :
          ( /\ promise[r].state = "pending"
            /\ loaders[requests[r].loader].responseType = NoHint
            /\ EndsWith(requests[r].url, Suffix)
            /\ TransportLoad(r, st, tx, Str(Text_12)) )
          => /\ promise'[r] = Resolved(Num(12))
             /\ promise'[r].value # Str(Text_12)
      ]_vars

\* A fetch of a ".json" URL without responseType resolved with the number.
C9_Witness ==
    \E r \in 1..Len(requests) :
        /\ loaders[requests[r].loader].responseType = NoHint
        /\ EndsWith(requests[r].url, Suffix)
        /\ promise[r] = Resolved(Num(12))

(* C10: every event handed to a progress callback for a member of a batch  *)
(* has an index field equal to the member's position in the array passed   *)
(* to load, counted from 0; every event of a single load has no index      *)
(* field.                                                                  *)
C10_ProgressIndexIsPosition ==
    \A k \in 1..Len(notifications) :
        LET n == notifications[k]
            c == CallOf(n.req)
        IN  /\ c \in Batches =>
                /\ "index" \in DOMAIN n.event
                /\ n.event.index = Num(PositionOf(n.req) - 1)
            /\ c \in Singles => "index" \notin DOMAIN n.event

\* A progress event delivered for the member at position 0.
C10_Witness ==
    \E k \in 1..Len(notifications) :
        /\ CallOf(notifications[k].req) \in Batches
        /\ PositionOf(notifications[k].req) = 1
        /\ "index" \in DOMAIN notifications[k].event
        /\ notifications[k].event.index = Num(0)

---------------------------------------------------------------------------
(* C13: load of an empty array creates no request and returns a promise    *)
(* that is resolved with the empty array, at once and from then on.        *)
C13_EmptyBatchResolvesEmpty ==
    [][/\ \A l \in DOMAIN loaders :
              Load(l, Arr(<<>>)) =>
                  /\ requests' = requests
                  /\ promise' = promise
                  /\ Len(calls') = Len(calls) + 1
                  /\ calls'[Len(calls')].kind = "all"
                  /\ calls'[Len(calls')].members = <<>>
       /\ \A c \in 1..Len(calls') :
              (calls'[c].kind = "all" /\ calls'[c].members = <<>>) =>
                  /\ calls'[c].all.state = "resolved"
                  /\ calls'[c].all.value = Arr(<<>>)
      ]_vars

\* An empty batch was loaded and no request exists.
C13_Witness ==
    \E c \in Batches : Size(c) = 0 /\ requests = <<>>

(* C15: load of an array of n URLs creates exactly n requests, request i   *)
(* for URL i, every one of them sent by the call and none of them ended;   *)
(* no request is sent later than the call that creates it.                 *)
C15_BatchDispatchesAllAtOnce ==
    [][/\ \A l \in DOMAIN loaders : \A t \in Targets :
              (calls' # calls /\ t.type = "array" /\ Load(l, t)) =>
                  /\ Len(requests') = Len(requests) + Len(t.items)
                  /\ \A i \in 1..Len(t.items) :
                         LET q == requests'[Len(requests) + i]
                         IN  /\ q.url = t.items[i].chars
                             /\ q.sent
                             /\ ~q.done
                             /\ promise'[Len(requests) + i] = Pending
       /\ \A r \in 1..Len(requests) : requests'[r].sent = requests[r].sent
       /\ \A r \in 1..Len(requests') : requests'[r].sent
      ]_vars

\* A batch of two whose members are both in flight before any event.
C15_Witness ==
    \E c \in Batches :
        /\ Size(c) = 2
        /\ \A i \in 1..2 : InFlight(Members(c)[i])
        /\ fired = <<>>

(* C16: once a batch is rejected it stays rejected with the same error,    *)
(* and its other members are not cancelled: a member in flight stays in    *)
(* flight until its own load or error event, these events and progress     *)
(* events can still fire, they settle the member as usual, and a progress  *)
(* event still invokes the registered callback.                            *)
C16_RejectedBatchMembersRunOn ==
    /\ [](\A c \in Batches : \A i \in 1..Size(c) :
              (calls[c].all.state = "rejected" /\ InFlight(Members(c)[i])) =>
                  /\ ENABLED TransportError(Members(c)[i])
                  /\ ENABLED TransportLoad(Members(c)[i], 200, "OK", Buf(<<1, 2>>))
                  /\ ENABLED TransportProgress(Members(c)[i], 1, 2))
    /\ [][\A c \in Batches :
              calls[c].all.state = "rejected" =>
                  /\ calls'[c].all.state = "rejected"
                  /\ calls'[c].all.value = calls[c].all.value
                  /\ \A i \in 1..Size(c) :
                         LET r == Members(c)[i]
                         IN  InFlight(r) =>
                               /\ requests'[r].done =>
                                      \/ TransportError(r)
                                      \/ \E st \in Statuses, tx \in StatusTexts,
                                            rs \in Responses : TransportLoad(r, st, tx, rs)
                               /\ TransportError(r) => promise'[r] = Rejected(NetworkError)
                               /\ TransportLoad(r, 200, "OK", Buf(<<1, 2>>))
                                      => promise'[r] = Resolved(Buf(<<1, 2>>))
                               /\ ( /\ ProgressCallbackOf(requests[r].loader) # Undefined
                                    /\ TransportProgress(r, 1, 2) )
                                  => /\ Len(notifications') = Len(notifications) + 1
                                     /\ notifications'[Len(notifications')].req = r
                                     /\ notifications'[Len(notifications')].callback
                                            = ProgressCallbackOf(requests[r].loader)
       ]_vars

\* A rejected batch with a member still in flight and a callback registered.
C16_Witness ==
    \E c \in Batches : \E i \in 1..Size(c) :
        /\ calls[c].all.state = "rejected"
        /\ InFlight(Members(c)[i])
        /\ ProgressCallbackOf(requests[Members(c)[i]].loader) # Undefined

(* C18: a request of a Loader constructed with the responseType            *)
(* "arraybuffer" or "json" has that responseType whatever its URL; with    *)
(* the responseType "" the request gets the responseType that a Loader     *)
(* constructed without one gives the same URL, json or arraybuffer.        *)
C18_HintDecidesResponseType ==
    \A r \in 1..Len(requests) :
        LET hint == loaders[requests[r].loader].responseType
        IN  /\ hint \in {"arraybuffer", "json"} => requests[r].responseType = hint
            /\ hint = "" =>
                   /\ requests[r].responseType \in {"json", "arraybuffer"}
                   /\ requests[r].responseType = RequestResponseType(NoHint, requests[r].url)
                   /\ EndsWith(requests[r].url, Suffix) => requests[r].responseType = "json"

\* A ".json" URL requested as arraybuffer by a Loader constructed so.
C18_Witness ==
    \E r \in 1..Len(requests) :
        /\ loaders[requests[r].loader].responseType = "arraybuffer"
        /\ EndsWith(requests[r].url, Suffix)
        /\ requests[r].responseType = "arraybuffer"

(* C20: a fetch whose load or error event was delivered is settled, so     *)
(* that a transport which ends every request settles every fetch and       *)
(* every promise load returned.                                            *)
C20_DeliveredEventSettles ==
    \A r \in 1..Len(requests) :
        requests[r].done => promise[r].state # "pending"

---------------------------------------------------------------------------
(* C14: under a transport that may fire load and error again (SpecLate), a *)
(* fetch's promise changes only from pending to resolved or rejected, only *)
(* in a load or error event of its own request, and never once it is       *)
(* settled; a progress event changes no promise.                           *)
C14_SettlesOnceByOwnEvent ==
    [][\A r \in 1..Len(requests) :
          /\ promise[r].state # "pending" => promise'[r] = promise[r]
          /\ promise'[r] # promise[r] =>
                 /\ promise[r].state = "pending"
                 /\ promise'[r].state \in {"resolved", "rejected"}
                 /\ \/ TransportError(r)
                    \/ LateError(r)
                    \/ \E st \in Statuses, tx \in StatusTexts, rs \in Responses :
                           TransportLoad(r, st, tx, rs) \/ LateLoad(r, st, tx, rs)
          /\ \A c \in ProgressCounts :
                 TransportProgress(r, c[1], c[2]) => promise' = promise /\ calls' = calls
      ]_vars

\* The only request has a resolved promise and its load listener also threw:
\* load fired twice on it, and the promise holds what one of them resolved.
C14_Witness ==
    /\ Len(requests) = 1
    /\ promise[1].state = "resolved"
    /\ uncaught # {}

---------------------------------------------------------------------------
(* Vocabulary of the progress properties.                                  *)

Last(q) == q[Len(q)]

\* The callback slot read by a progress event of request r.
Slot(r) == loaders[requests[r].loader].progressCb

\* A registration through either path.
Registers(l, cb) == OnProgress(l, cb) \/ SetProgressCallback(l, cb)

Registrable == Callbacks \cup {Undefined}

\* The step is a progress event of request r with the given counts.
Progresses(r, c) == TransportProgress(r, c[1], c[2])

\* The step invokes exactly one callback, after the earlier invocations.
InvokesOne ==
    /\ Len(notifications') = Len(notifications) + 1
    /\ SubSeq(notifications', 1, Len(notifications)) = notifications

---------------------------------------------------------------------------
(* C11: a registration invokes nothing, whatever progress events fired     *)
(* before it, and every progress event of a request fired while a callback *)
(* is registered invokes that callback once, for that request.             *)
C11_LateRegistrationNoReplay ==
    [][/\ \A l \in DOMAIN loaders, cb \in Registrable :
              Registers(l, cb) => notifications' = notifications
       /\ \A r \in 1..Len(requests), c \in ProgressCountsTwo :
              (Progresses(r, c) /\ Slot(r) # Undefined) =>
                  /\ InvokesOne
                  /\ Last(notifications').callback = Slot(r)
                  /\ Last(notifications').req = r
      ]_vars

\* A request fired two progress events; the callback now registered was
\* invoked for the second only, so it was registered between the two.
C11_Witness ==
    \E r \in 1..Len(requests) :
        /\ fired = << [req |-> r, loaded |-> 1, total |-> 2],
                      [req |-> r, loaded |-> 2, total |-> 2] >>
        /\ Len(notifications) = 1
        /\ notifications[1].req = r
        /\ notifications[1].event.loaded = 2
        /\ notifications[1].callback = Slot(r)

---------------------------------------------------------------------------
(* C12: onProgress and the progressCallback setter have the same effect:   *)
(* the Loader's slot holds the callback just given, and no request,        *)
(* promise, load call or uncaught error changes; the slot changes in no    *)
(* other step; a progress event invokes the callback its Loader's slot     *)
(* holds at that moment and no other.                                      *)
C12_OneSlotLastRegistrationWins ==
    [][/\ \A l \in DOMAIN loaders, cb \in Registrable :
              /\ OnProgress(l, cb) <=> SetProgressCallback(l, cb)
              /\ Registers(l, cb) =>
                     /\ loaders'[l].progressCb = cb
                     /\ requests' = requests
                     /\ promise' = promise
                     /\ calls' = calls
                     /\ uncaught' = uncaught
       /\ \A l \in DOMAIN loaders :
              loaders'[l].progressCb # loaders[l].progressCb =>
                  \E cb \in Registrable : Registers(l, cb)
       /\ notifications' # notifications =>
              /\ InvokesOne
              /\ Last(notifications').callback = Slot(Last(notifications').req)
      ]_vars

\* One request's progress invoked f and then g, the callback now registered,
\* while another request of the same Loader was already resolved.
C12_Witness ==
    \E r1, r2 \in 1..Len(requests) :
        /\ requests[r1].loader = requests[r2].loader
        /\ promise[r1].state = "resolved"
        /\ InFlight(r2)
        /\ Len(notifications) = 2
        /\ notifications[1].req = r2 /\ notifications[1].callback = Fun("f")
        /\ notifications[2].req = r2 /\ notifications[2].callback = Fun("g")
        /\ Slot(r2) = Fun("g")

---------------------------------------------------------------------------
(* C17: a progress event of any request in flight, while its Loader has a  *)
(* callback registered, invokes that callback exactly once, after all      *)
(* earlier invocations, with the event's loaded and total counts; with no  *)
(* callback registered it invokes nothing; nothing else invokes a callback.*)
C17_EachNotificationInvokesSlotOnce ==
    [][/\ \A r \in 1..Len(requests), c \in ProgressCountsTwo :
              Progresses(r, c) =>
                  IF Slot(r) # Undefined
                  THEN /\ InvokesOne
                       /\ Last(notifications').callback = Slot(r)
                       /\ Last(notifications').req = r
                       /\ Last(notifications').event.loaded = c[1]
                       /\ Last(notifications').event.total = c[2]
                  ELSE notifications' = notifications
       /\ notifications' # notifications =>
              \E r \in 1..Len(requests), c \in ProgressCountsTwo : Progresses(r, c)
      ]_vars

\* A single load and a batch member of the same Loader are both in flight;
\* each fired one progress event, and the one callback was invoked for the
\* two in the order fired.
C17_Witness ==
    \E r1, r2 \in 1..Len(requests) :
        /\ InFlight(r1) /\ InFlight(r2)
        /\ requests[r1].loader = requests[r2].loader
        /\ requests[r1].index = Undefined
        /\ requests[r2].index # Undefined
        /\ fired = << [req |-> r2, loaded |-> 1, total |-> 2],
                      [req |-> r1, loaded |-> 2, total |-> 2] >>
        /\ Len(notifications) = 2
        /\ notifications[1].req = r2 /\ notifications[1].event.loaded = 1
        /\ notifications[2].req = r1 /\ notifications[2].event.loaded = 2
        /\ notifications[1].callback = notifications[2].callback

---------------------------------------------------------------------------
(* C19: a registration on one Loader leaves every other Loader's slot      *)
(* unchanged, and a progress event of a request invokes the callback of    *)
(* the Loader that issued the request, or nothing when that Loader has     *)
(* none, whatever the other Loader has registered.                         *)
C19_SlotOwnedByInstance ==
    [][/\ \A l \in DOMAIN loaders, cb \in Registrable :
              Registers(l, cb) =>
                  \A k \in DOMAIN loaders \ {l} : loaders'[k] = loaders[k]
       /\ \A r \in 1..Len(requests), c \in ProgressCountsTwo :
              Progresses(r, c) =>
                  /\ Slot(r) = Undefined => notifications' = notifications
                  /\ notifications' # notifications =>
                         Last(notifications').callback
                             = loaders[requests[r].loader].progressCb
      ]_vars

\* loaderA has f registered and loaderB has nothing; a request of each fired
\* a progress event, and only loaderA's invoked f.
C19_Witness ==
    \E r1, r2 \in 1..Len(requests) :
        /\ requests[r1].loader = "loaderA"
        /\ requests[r2].loader = "loaderB"
        /\ loaders["loaderA"].progressCb = Fun("f")
        /\ loaders["loaderB"].progressCb = Undefined
        /\ fired = << [req |-> r2, loaded |-> 1, total |-> 2],
                      [req |-> r1, loaded |-> 1, total |-> 2] >>
        /\ Len(notifications) = 1
        /\ notifications[1].req = r1
        /\ notifications[1].callback = Fun("f")

=============================================================================
